---- MODULE Spec2Model ----
(***************************************************************************)
(* A model of the watermark-removal scripts:                               *)
(*   scripts/inpaint_video.py         process_video and its remux post-pass *)
(*   scripts/ai_watermark_remover.py  process_video_optimized (batched)     *)
(*   scripts/models/model_manager.py  download_model / is_model_downloaded  *)
(* Spec          runs one of the two video pipelines from start to exit.    *)
(* SpecMask      applies create_mask of inpaint_video.py to a region list.  *)
(* SpecDownload  runs download_model twice in sequence for one algorithm.   *)
(***************************************************************************)
EXTENDS Integers, Naturals, Sequences, FiniteSets, TLC

(***************************************************************************)
(* Bounds of the model.                                                    *)
(***************************************************************************)
\* Declared totals (CAP_PROP_FRAME_COUNT) range over 0..MaxTotal, and over
\* LargeTotal, the smallest kind of total for which report_interval > 1.
MaxTotal == 5
\* Actual source lengths range over 0..MaxFrames (and LargeTotal-1..LargeTotal+1).
MaxFrames == 6
LargeTotal == 201
\* --batch-size values range over 0..MaxBatch (0: the device default is used).
MaxBatch == 3

(***************************************************************************)
(* Program constants.                                                      *)
(***************************************************************************)
AccelBatch == 12
CpuBatch == 4
NumEncoders == 4

Min(a, b) == IF a < b THEN a ELSE b
Max(a, b) == IF a > b THEN a ELSE b

\* Python's round(n / d) for n >= 0, d > 0: round half to even.  For the
\* totals of this model (none a multiple of 40) the float computation
\* round(c / t * 100) agrees with the exact value on every c.
PyRound(n, d) ==
    LET q == n \div d
        r == n % d
    IN  IF 2 * r < d THEN q
        ELSE IF 2 * r > d THEN q + 1
        ELSE IF q % 2 = 0 THEN q ELSE q + 1

(***************************************************************************)
(* Frames, the mask and the restoration oracle.  A frame is three pixels;  *)
(* the mask gives them the blend weights 0, 128/255 and 1.                 *)
(***************************************************************************)
Pixels == 1..3
\* The i-th frame the decoder yields (capture order).
SrcFrame(i) == [k \in Pixels |-> (i * (5 + 2 * k) + k) % 256]
\* Blend weight of each pixel, in 255ths (mask_tensor of ai_watermark_remover,
\* after the Gaussian blur; the binary mask of inpaint_video is MaskW > 0).
MaskW == <<0, 128, 255>>
\* What the oracle returns for one frame, as uint8 after "* 255" and clip:
\* a function of that frame alone.
Restore(f) == [k \in Pixels |-> 255 - f[k]]
\* model(input_batch, mask_tensor): one result per input frame, same order.
OracleBatch(batch) == [i \in 1..Len(batch) |-> Restore(batch[i])]
\* final_frame = (frames[i] * (1 - m) + out_frame * m).astype(np.uint8)
Composite(f, o) ==
    [k \in Pixels |-> (f[k] * (255 - MaskW[k]) + o[k] * MaskW[k]) \div 255]
\* cv2.inpaint: pixels under the mask are replaced, the others kept.
inpaint_frame(f) == [k \in Pixels |-> IF MaskW[k] > 0 THEN Restore(f)[k] ELSE f[k]]

(***************************************************************************)
(* Events (one JSON line each).  Fields an event kind does not carry are   *)
(* -1 or "".                                                               *)
(***************************************************************************)
Ev(t, p, c, n, o) ==
    [type |-> t, progress |-> p, current_frame |-> c, total_frames |-> n, output |-> o]
\* an error event; its text is carried in the output field
ErrorEv(msg) == Ev("error", -1, -1, -1, msg)
InfoEv(n) == Ev("info", -1, -1, n, "")
CompleteEv == Ev("complete", -1, -1, -1, "output_path")

\* A print_progress that reports the share still to do instead of the share done.
print_progress_remaining(c, n) ==
    Ev("progress", IF n > 0 THEN PyRound(Max(n - c, 0) * 100, n) ELSE 0, c, n, "")
\* print_progress(current_frame, total_frames) of inpaint_video.py
print_progress(c, n) ==
    Ev("progress", IF n > 0 THEN PyRound(c * 100, n) ELSE 0, c, n, "")
\* report_interval = max(1, total_frames // 100)
report_interval(n) == Max(1, n \div 100)
\* current_frame % report_interval == 0 or current_frame == total_frames
ReportDue(c, n) == c % report_interval(n) = 0 \/ c = n

\* report_progress(prog, processed_count, total_frames, fps_speed) with
\* prog = round((processed_count / total_frames) * 100)
report_progress(c, n) == Ev("progress", PyRound(c * 100, n), c, n, "")
\* processed_count % (batch_size * 2) == 0 or processed_count == total_frames
OptReportDue(c, bs, n) == c % (bs * 2) = 0 \/ c = n
\* The report divides by total_frames: ZeroDivisionError when it is 0.
OptReportRaises(n) == n = 0

\* batch_size = custom_batch_size if custom_batch_size > 0
\*              else (12 if device == 'cuda' else 4)
BatchSizeOf(custom, dev) ==
    IF custom > 0 THEN custom ELSE IF dev = "cuda" THEN AccelBatch ELSE CpuBatch
\* read_frames(cam, count): up to count frames, fewer at the end of the stream.
\* A reader that returns full batches only.
read_frames_full(p, len, count) ==
    IF len - p >= count THEN [i \in 1..count |-> SrcFrame(p + i)] ELSE <<>>
read_frames(p, len, count) == [i \in 1..Min(count, len - p) |-> SrcFrame(p + i)]

(***************************************************************************)
(* The file system: the two paths process_video touches.                   *)
(***************************************************************************)
Paths == {"output_path", "temp_output"}
Absent == "absent"
\* os.rename(src, dst): raises when src is missing; on Windows it also
\* raises FileExistsError when dst exists, on POSIX it replaces dst.
RenameRaises(f, src, dst, plat) ==
    f[src] = Absent \/ (plat = "nt" /\ f[dst] # Absent)
RenameResult(f, src, dst) == [f EXCEPT ![dst] = f[src], ![src] = Absent]

\* encoders of detect_hw_encoder, in probe order
\* The candidates with the two vendor encoders in the other order.
EncodersNvencLast == <<"h264_videotoolbox", "h264_amf", "h264_nvenc", "h264_qsv">>
Encoders == <<"h264_videotoolbox", "h264_nvenc", "h264_amf", "h264_qsv">>
ProbeFailures == {"nonzero", "timeout", "exception"}
\* build_encoder_args(encoder): the "-c:v" codec of the argument list
build_encoder_args(enc) ==
    IF enc \in {"h264_videotoolbox", "h264_nvenc", "h264_amf", "h264_qsv"}
    THEN enc ELSE "libx264"

VARIABLES
    prog,               \* which script runs
    platform,           \* "posix" or "nt": decides os.rename on an existing target
    device,             \* 'cuda' | 'mps' | 'cpu'
    custom_batch_size,  \* --batch-size
    pc,                 \* position in the script
    total_frames,       \* int(cap.get(CAP_PROP_FRAME_COUNT)): the declared total
    source_len,         \* frames the decoder really yields
    pos,                \* frames read from the decoder so far
    cap_open,           \* decoder handle held
    out_open,           \* writer handle held and opened
    batch_size,
    current_frame,      \* process_video's counter
    processed_count,    \* process_video_optimized's counter
    written,            \* frames accepted by the writer, in order
    oracle_calls,       \* each call of the oracle: the source indices of its frames
    events,             \* the JSON lines printed so far
    fs,                 \* content of output_path and of temp_output
    probes,             \* outcome of each smoke-encode run so far
    hw_encoder,         \* result of detect_hw_encoder ("" before)
    remux,              \* calls of the remux command: the codec of each
    stage,              \* post-pass stage
    raised,             \* exception that ended the run ("none" otherwise)
    fatal,              \* the fatal condition the run met ("none" otherwise)
    exit_code,          \* -1 while running
    \* create_mask of inpaint_video.py
    frame_shape,        \* <<height, width>>
    regions,            \* the regions the loop has taken so far
    mask,               \* the pixels <<row, column>> set to 255
    \* download_model
    sha256,             \* MODEL_REGISTRY[algorithm]["sha256"]: "None" or a digest
    model_file,         \* the file at model_path
    temp_file,          \* the file at model_path + ".tmp"
    dl_pc,              \* position in download_model
    body_left,          \* bytes of the response not read yet
    body_sha,           \* digest of the response body
    model_before,       \* model_file when the current call began
    connected,          \* whether the current call opened a connection
    calls               \* the calls that returned or raised, in order

inputs == <<prog, platform, device, custom_batch_size>>
video == <<total_frames, source_len>>
loopv == <<pos, current_frame, processed_count, written, oracle_calls>>
handles == <<cap_open, out_open>>
post == <<fs, probes, hw_encoder, remux, stage>>
pipeline == <<inputs, video, loopv, handles, post, pc, batch_size, events, raised, fatal,
              exit_code>>
maskv == <<frame_shape, regions, mask>>
dlv == <<sha256, model_file, temp_file, dl_pc, body_left, body_sha, model_before,
         connected, calls>>
vars == <<pipeline, maskv, dlv>>

Totals == (0..MaxTotal) \cup {LargeTotal}
\* (declared total, actual length) of the videos the model runs on
Videos ==
    ((0..MaxTotal) \X (0..MaxFrames))
    \cup ({LargeTotal} \X ((LargeTotal - 1)..(LargeTotal + 1)))

\* a path with no file
NoFile == [exists |-> FALSE, size |-> 0, sha |-> "", by |-> ""]

\* create_mask is not running
MaskIdle == frame_shape = <<0, 0>> /\ regions = <<>> /\ mask = {}
\* download_model is not running
DownloadIdle ==
    /\ sha256 = "None" /\ model_file = NoFile /\ temp_file = NoFile
    /\ dl_pc = "idle" /\ body_left = 0 /\ body_sha = "" /\ model_before = NoFile
    /\ connected = FALSE /\ calls = <<>>
\* no video pipeline is running
PipelineIdleOn(plat) ==
    /\ prog = "" /\ platform = plat /\ device = "cpu" /\ custom_batch_size = 0
    /\ pc = "idle"
    /\ total_frames = 0 /\ source_len = 0 /\ pos = 0
    /\ cap_open = FALSE /\ out_open = FALSE
    /\ batch_size = 0 /\ current_frame = 0 /\ processed_count = 0
    /\ written = <<>> /\ oracle_calls = <<>> /\ events = <<>>
    /\ fs = [p \in Paths |-> Absent]
    /\ probes = <<>> /\ hw_encoder = "" /\ remux = <<>> /\ stage = "none"
    /\ raised = "none" /\ fatal = "none" /\ exit_code = -1
PipelineIdle == PipelineIdleOn("posix")

Init ==
    /\ MaskIdle /\ DownloadIdle
    /\ prog \in {"inpaint_video", "ai_watermark_remover"}
    /\ platform \in (IF prog = "inpaint_video" THEN {"posix", "nt"} ELSE {"posix"})
    /\ device \in (IF prog = "ai_watermark_remover" THEN {"cuda", "mps", "cpu"} ELSE {"cpu"})
    /\ custom_batch_size \in (IF prog = "ai_watermark_remover" THEN 0..MaxBatch ELSE {0})
    /\ pc = "main"
    /\ total_frames = 0 /\ source_len = 0 /\ pos = 0
    /\ cap_open = FALSE /\ out_open = FALSE
    /\ batch_size = 0 /\ current_frame = 0 /\ processed_count = 0
    /\ written = <<>> /\ oracle_calls = <<>> /\ events = <<>>
    /\ fs = [p \in Paths |-> Absent]
    /\ probes = <<>> /\ hw_encoder = "" /\ remux = <<>> /\ stage = "none"
    /\ raised = "none" /\ fatal = "none" /\ exit_code = -1

\* sys.exit(code), or the interpreter ending the process
Exit(code) == exit_code' = code /\ pc' = "done"

(***************************************************************************)
(* inpaint_video.py                                                        *)
(***************************************************************************)
\* main(): the input path is checked before process_video is called.
VideoMainMissing ==
    /\ prog = "inpaint_video" /\ pc = "main"
    /\ events' = Append(events, ErrorEv("Input file not found"))
    /\ Exit(1)
    /\ UNCHANGED <<inputs, video, loopv, handles, post, batch_size, raised>>
    /\ fatal' = "input_missing"
    /\ UNCHANGED <<maskv, dlv>>

VideoMain ==
    /\ prog = "inpaint_video" /\ pc = "main"
    /\ pc' = "open_cap"
    /\ UNCHANGED <<inputs, video, loopv, handles, post, batch_size, events, raised, exit_code>>
    /\ UNCHANGED fatal
    /\ UNCHANGED <<maskv, dlv>>

\* cap = cv2.VideoCapture(input_path); not cap.isOpened()
VideoCapFails ==
    /\ prog = "inpaint_video" /\ pc = "open_cap"
    /\ events' = Append(events, ErrorEv("Cannot open video"))
    /\ Exit(1)
    /\ UNCHANGED <<inputs, video, loopv, handles, post, batch_size, raised>>
    /\ fatal' = "decoder"
    /\ UNCHANGED <<maskv, dlv>>

VideoCapOpens ==
    /\ prog = "inpaint_video" /\ pc = "open_cap"
    /\ \E v \in Videos : total_frames' = v[1] /\ source_len' = v[2]
    /\ cap_open' = TRUE
    /\ pc' = "open_writer"
    /\ UNCHANGED <<inputs, loopv, out_open, post, batch_size, events, raised, exit_code>>
    /\ UNCHANGED fatal
    /\ UNCHANGED <<maskv, dlv>>

\* out = cv2.VideoWriter(...); not out.isOpened(): error, cap.release(), exit
VideoWriterFails ==
    /\ prog = "inpaint_video" /\ pc = "open_writer"
    /\ events' = Append(events, ErrorEv("Cannot create output"))
    /\ cap_open' = FALSE
    /\ Exit(1)
    /\ UNCHANGED <<inputs, video, loopv, out_open, post, batch_size, raised>>
    /\ fatal' = "writer"
    /\ UNCHANGED <<maskv, dlv>>

\* The writer opens (the file now exists); mask, detect_gpu, the info event.
VideoWriterOpens ==
    /\ prog = "inpaint_video" /\ pc = "open_writer"
    /\ out_open' = TRUE
    /\ fs' = [fs EXCEPT !["output_path"] = "video_only"]
    /\ events' = Append(events, InfoEv(total_frames))
    /\ pc' = "loop"
    /\ UNCHANGED <<inputs, video, loopv, cap_open, probes, hw_encoder, remux, stage,
                   batch_size, raised, exit_code>>
    /\ UNCHANGED fatal
    /\ UNCHANGED <<maskv, dlv>>

\* One pass of "while True": cap.read() fails and the loop breaks.
VideoLoopEnd ==
    /\ prog = "inpaint_video" /\ pc = "loop"
    /\ pos >= source_len
    /\ pc' = "finally"
    /\ UNCHANGED <<inputs, video, loopv, handles, post, batch_size, events, raised, exit_code>>
    /\ UNCHANGED fatal
    /\ UNCHANGED <<maskv, dlv>>

\* One pass: the frame is read and inpaint_frame raises.
VideoLoopRaises ==
    /\ prog = "inpaint_video" /\ pc = "loop"
    /\ pos < source_len
    /\ pos' = pos + 1
    /\ raised' = "cv2.error"
    /\ pc' = "finally"
    /\ oracle_calls' = Append(oracle_calls, <<pos + 1>>)
    /\ UNCHANGED <<inputs, video, current_frame, processed_count, written, handles, post,
                   batch_size, events, exit_code>>
    /\ fatal' = "oracle"
    /\ UNCHANGED <<maskv, dlv>>

\* One pass: read, inpaint, write, count, report.
VideoLoopFrame ==
    /\ prog = "inpaint_video" /\ pc = "loop"
    /\ pos < source_len
    /\ pos' = pos + 1
    /\ oracle_calls' = Append(oracle_calls, <<pos + 1>>)
    /\ written' = Append(written, inpaint_frame(SrcFrame(pos + 1)))
    /\ current_frame' = current_frame + 1
    /\ events' = IF ReportDue(current_frame + 1, total_frames)
                 THEN Append(events, print_progress(current_frame + 1, total_frames))
                 ELSE events
    /\ UNCHANGED <<inputs, video, processed_count, handles, post, pc, batch_size,
                   raised, exit_code>>
    /\ UNCHANGED fatal
    /\ UNCHANGED <<maskv, dlv>>

\* finally: cap.release(); out.release().  A pending exception then leaves
\* process_video and main uncaught: traceback, exit status 1, no event.
\* The finally block releasing the decoder only.
VideoFinallyCapOnly ==
    /\ prog = "inpaint_video" /\ pc = "finally"
    /\ cap_open' = FALSE /\ out_open' = out_open
    /\ IF raised # "none"
       THEN Exit(1)
       ELSE pc' = "rename" /\ UNCHANGED exit_code
    /\ UNCHANGED <<inputs, video, loopv, post, batch_size, events, raised>>
    /\ UNCHANGED fatal
    /\ UNCHANGED <<maskv, dlv>>

VideoFinally ==
    /\ prog = "inpaint_video" /\ pc = "finally"
    /\ cap_open' = FALSE /\ out_open' = FALSE
    /\ IF raised # "none"
       THEN Exit(1)
       ELSE pc' = "rename" /\ UNCHANGED exit_code
    /\ UNCHANGED <<inputs, video, loopv, post, batch_size, events, raised>>
    /\ UNCHANGED fatal
    /\ UNCHANGED <<maskv, dlv>>

\* temp_output = output_path + ".temp.mp4"; os.rename(output_path, temp_output)
VideoRename ==
    /\ prog = "inpaint_video" /\ pc = "rename"
    /\ IF RenameRaises(fs, "output_path", "temp_output", platform)
       THEN raised' = "OSError" /\ Exit(1) /\ UNCHANGED <<fs, stage>>
       ELSE /\ fs' = RenameResult(fs, "output_path", "temp_output")
            /\ stage' = "Probing"
            /\ pc' = "probe"
            /\ UNCHANGED <<raised, exit_code>>
    /\ UNCHANGED <<inputs, video, loopv, handles, probes, hw_encoder, remux,
                   batch_size, events>>
    /\ UNCHANGED fatal
    /\ UNCHANGED <<maskv, dlv>>

\* detect_hw_encoder: the next encoder's smoke-encode exits with code 0.
ProbeSucceeds ==
    /\ prog = "inpaint_video" /\ pc = "probe"
    /\ Len(probes) < NumEncoders
    /\ probes' = Append(probes, "ok")
    /\ hw_encoder' = Encoders[Len(probes) + 1]
    /\ stage' = "Selected"
    /\ pc' = "remux"
    /\ UNCHANGED <<inputs, video, loopv, handles, fs, remux, batch_size, events,
                   raised, exit_code>>
    /\ UNCHANGED fatal
    /\ UNCHANGED <<maskv, dlv>>

\* The smoke-encode exits non-zero, times out or cannot be launched: skipped.
ProbeFails ==
    /\ prog = "inpaint_video" /\ pc = "probe"
    /\ Len(probes) < NumEncoders
    /\ \E o \in ProbeFailures : probes' = Append(probes, o)
    /\ UNCHANGED <<inputs, video, loopv, handles, fs, hw_encoder, remux, stage, pc,
                   batch_size, events, raised, exit_code>>
    /\ UNCHANGED fatal
    /\ UNCHANGED <<maskv, dlv>>

\* The list is exhausted: return "libx264".
ProbeFallback ==
    /\ prog = "inpaint_video" /\ pc = "probe"
    /\ Len(probes) = NumEncoders
    /\ hw_encoder' = "libx264"
    /\ stage' = "Selected"
    /\ pc' = "remux"
    /\ UNCHANGED <<inputs, video, loopv, handles, fs, probes, remux, batch_size, events,
                   raised, exit_code>>
    /\ UNCHANGED fatal
    /\ UNCHANGED <<maskv, dlv>>

\* try: the remux command runs with build_encoder_args(hw_encoder).  ffmpeg
\* exits 0 and leaves the merged file; or exits non-zero, having created
\* output_path (a partial file) or not; or cannot be launched at all.
RemuxOutcomes == {"rc0", "nonzero_partial", "nonzero_nofile", "launch_error"}
AfterFfmpeg(f, r) ==
    IF r = "rc0" THEN [f EXCEPT !["output_path"] = "merged"]
    ELSE IF r = "nonzero_partial" THEN [f EXCEPT !["output_path"] = "partial"]
    ELSE f

VideoRemux ==
    /\ prog = "inpaint_video" /\ pc = "remux"
    /\ \E r \in RemuxOutcomes :
          /\ remux' = Append(remux, [codec |-> build_encoder_args(hw_encoder), result |-> r])
          /\ fs' = AfterFfmpeg(fs, r)
    /\ stage' = "Remuxing"
    /\ pc' = "finalize"
    /\ UNCHANGED <<inputs, video, loopv, handles, probes, hw_encoder, batch_size, events,
                   raised, exit_code>>
    /\ UNCHANGED fatal
    /\ UNCHANGED <<maskv, dlv>>

\* except Exception: if os.path.exists(temp_output): os.rename(temp_output, output_path)
\* An exception of this rename is caught by nothing.
ExceptRenameRaises(f, plat) ==
    f["temp_output"] # Absent /\ RenameRaises(f, "temp_output", "output_path", plat)
ExceptRenameResult(f) ==
    IF f["temp_output"] # Absent THEN RenameResult(f, "temp_output", "output_path") ELSE f

\* The rest of the try block and its handler:
\*   returncode != 0: os.rename(temp_output, output_path)   else: os.remove(temp_output)
VideoFinalize ==
    /\ prog = "inpaint_video" /\ pc = "finalize"
    /\ LET r == remux[Len(remux)].result IN
       IF r = "rc0"
       THEN /\ fs' = [fs EXCEPT !["temp_output"] = Absent]
            /\ stage' = "Finalized"
            /\ pc' = "complete"
            /\ UNCHANGED <<raised, exit_code>>
       ELSE IF r = "launch_error" \/ RenameRaises(fs, "temp_output", "output_path", platform)
       THEN \* the handler runs
            IF ExceptRenameRaises(fs, platform)
            THEN raised' = "FileExistsError" /\ Exit(1) /\ UNCHANGED <<fs, stage>>
            ELSE /\ fs' = ExceptRenameResult(fs)
                 /\ stage' = "DegradedVideoOnly"
                 /\ pc' = "complete"
                 /\ UNCHANGED <<raised, exit_code>>
       ELSE /\ fs' = RenameResult(fs, "temp_output", "output_path")
            /\ stage' = "DegradedVideoOnly"
            /\ pc' = "complete"
            /\ UNCHANGED <<raised, exit_code>>
    /\ UNCHANGED <<inputs, video, loopv, handles, probes, hw_encoder, remux, batch_size,
                   events>>
    /\ UNCHANGED fatal
    /\ UNCHANGED <<maskv, dlv>>

\* print complete; process_video and main return.
VideoComplete ==
    /\ prog = "inpaint_video" /\ pc = "complete"
    /\ events' = Append(events, CompleteEv)
    /\ Exit(0)
    /\ UNCHANGED <<inputs, video, loopv, handles, post, batch_size, raised>>
    /\ UNCHANGED fatal
    /\ UNCHANGED <<maskv, dlv>>

(***************************************************************************)
(* ai_watermark_remover.py                                                 *)
(***************************************************************************)
\* not os.path.exists(input_path): error, sys.exit(1) (SystemExit passes
\* the "except Exception" of __main__)
OptMainMissing ==
    /\ prog = "ai_watermark_remover" /\ pc = "main"
    /\ events' = Append(events, ErrorEv("Input not found"))
    /\ Exit(1)
    /\ UNCHANGED <<inputs, video, loopv, handles, post, batch_size, raised>>
    /\ fatal' = "input_missing"
    /\ UNCHANGED <<maskv, dlv>>

OptMain ==
    /\ prog = "ai_watermark_remover" /\ pc = "main"
    /\ pc' = "open_cap"
    /\ UNCHANGED <<inputs, video, loopv, handles, post, batch_size, events, raised, exit_code>>
    /\ UNCHANGED fatal
    /\ UNCHANGED <<maskv, dlv>>

OptCapFails ==
    /\ prog = "ai_watermark_remover" /\ pc = "open_cap"
    /\ events' = Append(events, ErrorEv("Failed to open video"))
    /\ Exit(1)
    /\ UNCHANGED <<inputs, video, loopv, handles, post, batch_size, raised>>
    /\ fatal' = "decoder"
    /\ UNCHANGED <<maskv, dlv>>

OptCapOpens ==
    /\ prog = "ai_watermark_remover" /\ pc = "open_cap"
    /\ \E v \in Videos : total_frames' = v[1] /\ source_len' = v[2]
    /\ cap_open' = TRUE
    /\ pc' = "setup"
    /\ UNCHANGED <<inputs, loopv, out_open, post, batch_size, events, raised, exit_code>>
    /\ UNCHANGED fatal
    /\ UNCHANGED <<maskv, dlv>>

\* out = cv2.VideoWriter(...) is not checked: it opened (the file exists) or
\* it did not.  Then setup_model, the mask, batch_size and the info event.
OptSetup ==
    /\ prog = "ai_watermark_remover" /\ pc = "setup"
    /\ \E ok \in BOOLEAN :
          /\ out_open' = ok
          /\ fatal' = IF ok THEN fatal ELSE "writer"
          /\ fs' = IF ok THEN [fs EXCEPT !["output_path"] = "video_only"] ELSE fs
    /\ batch_size' = BatchSizeOf(custom_batch_size, device)
    /\ events' = Append(events, InfoEv(-1))
    /\ pc' = "loop"
    /\ UNCHANGED <<inputs, video, loopv, cap_open, probes, hw_encoder, remux, stage,
                   raised, exit_code>>
    /\ UNCHANGED <<maskv, dlv>>

\* except Exception as e in __main__: the error event and sys.exit(1).
\* cap and out are not released on this path.
OptCaught(exc) ==
    /\ raised' = exc
    /\ events' = Append(events, ErrorEv(exc))
    /\ Exit(1)

\* One pass of "while True": read_frames returns nothing and the loop breaks.
OptLoopEnd ==
    /\ prog = "ai_watermark_remover" /\ pc = "loop"
    /\ Len(read_frames(pos, source_len, batch_size)) = 0
    /\ pc' = "release"
    /\ UNCHANGED <<inputs, video, loopv, handles, post, batch_size, events, raised, exit_code>>
    /\ UNCHANGED fatal
    /\ UNCHANGED <<maskv, dlv>>

\* One pass: a batch is read and the model raises on it.
OptBatchRaises ==
    /\ prog = "ai_watermark_remover" /\ pc = "loop"
    /\ LET frames == read_frames(pos, source_len, batch_size) IN
          /\ Len(frames) > 0
          /\ pos' = pos + Len(frames)
          /\ oracle_calls' = Append(oracle_calls, [i \in 1..Len(frames) |-> pos + i])
    /\ OptCaught("oracle")
    /\ UNCHANGED <<inputs, video, current_frame, processed_count, written, handles, post,
                   batch_size>>
    /\ fatal' = "oracle"
    /\ UNCHANGED <<maskv, dlv>>

\* What one pass writes: frames[i] blended with out_batch[i], in order.
BatchOutput(frames) ==
    LET out_batch == OracleBatch(frames)
    IN  [i \in 1..Len(frames) |-> Composite(frames[i], out_batch[i])]

\* One pass: read a batch, run the model once, blend and write each frame,
\* count, report.
OptBatch ==
    /\ prog = "ai_watermark_remover" /\ pc = "loop"
    /\ LET frames == read_frames(pos, source_len, batch_size)
           done == processed_count + Len(frames)
       IN  /\ Len(frames) > 0
           /\ pos' = pos + Len(frames)
           /\ oracle_calls' = Append(oracle_calls, [i \in 1..Len(frames) |-> pos + i])
           \* out.write on a writer that did not open does nothing
           /\ written' = IF out_open THEN written \o BatchOutput(frames) ELSE written
           /\ processed_count' = done
           /\ IF OptReportDue(done, batch_size, total_frames)
              THEN IF OptReportRaises(total_frames)
                   THEN OptCaught("ZeroDivisionError")
                   ELSE /\ events' = Append(events, report_progress(done, total_frames))
                        /\ UNCHANGED <<pc, raised, exit_code>>
              ELSE UNCHANGED <<pc, events, raised, exit_code>>
    /\ UNCHANGED <<inputs, video, current_frame, handles, post, batch_size>>
    /\ UNCHANGED fatal
    /\ UNCHANGED <<maskv, dlv>>

\* cap.release(); out.release(); print complete; return to __main__.
OptRelease ==
    /\ prog = "ai_watermark_remover" /\ pc = "release"
    /\ cap_open' = FALSE /\ out_open' = FALSE
    /\ events' = Append(events, CompleteEv)
    /\ Exit(0)
    /\ UNCHANGED <<inputs, video, loopv, post, batch_size, raised>>
    /\ UNCHANGED fatal
    /\ UNCHANGED <<maskv, dlv>>

Next ==
    \/ VideoMainMissing \/ VideoMain \/ VideoCapFails \/ VideoCapOpens
    \/ VideoWriterFails \/ VideoWriterOpens
    \/ VideoLoopEnd \/ VideoLoopRaises \/ VideoLoopFrame \/ VideoFinally
    \/ VideoRename \/ ProbeSucceeds \/ ProbeFails \/ ProbeFallback
    \/ VideoRemux \/ VideoFinalize \/ VideoComplete
    \/ OptMainMissing \/ OptMain \/ OptCapFails \/ OptCapOpens \/ OptSetup
    \/ OptLoopEnd \/ OptBatchRaises \/ OptBatch \/ OptRelease

Spec == Init /\ [][Next]_vars

(***************************************************************************)
(* create_mask of inpaint_video.py                                         *)
(***************************************************************************)
\* Frames are 1..MaxDim pixels wide and high; a region has x, y in
\* -MaxDim..MaxDim and width, height in 0..MaxDim; a list has up to
\* MaxRegions regions.
MaxDim == 2
MaxRegions == 2
Dims == 1..MaxDim
Regions == [x : (-MaxDim)..MaxDim, y : (-MaxDim)..MaxDim, width : 0..MaxDim, height : 0..MaxDim]

\* The indices a[i:j] selects of an axis of n entries (Python and numpy): a
\* negative bound counts from the end, and bounds are clamped to 0..n.
SliceBound(i, n) == IF i < 0 THEN Max(i + n, 0) ELSE Min(i, n)
PySlice(i, j, n) == {k \in 0..(n - 1) : SliceBound(i, n) <= k /\ k < SliceBound(j, n)}

\* The pixels one pass of the loop sets:
\*   x1, y1 = max(0, x), max(0, y)
\*   x2, y2 = min(frame_shape[1], x + w), min(frame_shape[0], y + h)
\*   mask[y1:y2, x1:x2] = 255
RegionPixels(shape, r) ==
    LET x1 == Max(0, r.x)
        y1 == Max(0, r.y)
        x2 == Min(shape[2], r.x + r.width)
        y2 == Min(shape[1], r.y + r.height)
    IN  PySlice(y1, y2, shape[1]) \X PySlice(x1, x2, shape[2])

MaskInit ==
    /\ PipelineIdle /\ DownloadIdle
    /\ frame_shape \in Dims \X Dims
    /\ regions = <<>>
    /\ mask = {}

\* for region in regions: one pass, on the next region of the list
MaskRegion ==
    /\ Len(regions) < MaxRegions
    /\ \E r \in Regions :
          /\ regions' = Append(regions, r)
          /\ mask' = mask \cup RegionPixels(frame_shape, r)
    /\ UNCHANGED <<frame_shape, pipeline, dlv>>

MaskNext == MaskRegion

SpecMask == MaskInit /\ [][MaskNext]_vars

(***************************************************************************)
(* model_manager.py: download_model, called MaxCalls times in sequence for *)
(* one algorithm.                                                          *)
(***************************************************************************)
MaxCalls == 2
\* Response bodies have 0, 1, MinBytes - 1, MinBytes, MinBytes + 1 bytes, or
\* k blocks and a byte for k in 2..MaxBlocks.
MaxBlocks == 2
\* block_size = 1024 * 1024
block_size == 1048576
\* file_size < 1024 * 1024 is rejected by download_model
MinBytes == 1048576
\* os.path.getsize(model_path) > 1024 * 1024 in is_model_downloaded
CachedMinBytes == 1048576

BodySizes ==
    {0, 1, MinBytes - 1, MinBytes, MinBytes + 1}
    \cup {k * block_size + 1 : k \in 2..MaxBlocks}

\* is_model_downloaded(algorithm), on the file at model_path
is_model_downloaded(f) == f.exists /\ f.size > CachedMinBytes

\* A handler that leaves the temp file where it is.
ExceptCleanupKeeps(t) == t
\* except Exception: if os.path.exists(temp_path): os.remove(temp_path)
ExceptCleanup(t) == IF t.exists THEN NoFile ELSE t

\* The record of a call that has ended.
Call(res, net, why, after, tmp) ==
    [result |-> res, network |-> net, cause |-> why,
     model_before |-> model_before, model_after |-> after, temp_after |-> tmp]

\* The call ends (returns or raises); the next call, if any, begins.
EndCall(res, net, why, after, tmp) ==
    /\ calls' = Append(calls, Call(res, net, why, after, tmp))
    /\ model_file' = after
    /\ temp_file' = tmp
    /\ model_before' = after
    /\ connected' = FALSE
    /\ body_left' = 0 /\ body_sha' = ""
    /\ dl_pc' = IF Len(calls) + 1 < MaxCalls THEN "call" ELSE "idle"

DownloadInit ==
    /\ \E plat \in {"posix", "nt"} : PipelineIdleOn(plat)
    /\ MaskIdle
    /\ sha256 \in {"None", "digest"}
    /\ model_file \in {NoFile} \cup
          {[exists |-> TRUE, size |-> n, sha |-> "old", by |-> "before"] :
              n \in {0, CachedMinBytes, CachedMinBytes + 1}}
    \* a temp file may be left from a download that was killed
    /\ temp_file \in {NoFile, [exists |-> TRUE, size |-> 1, sha |-> "", by |-> "before"]}
    /\ dl_pc = "call"
    /\ body_left = 0 /\ body_sha = ""
    /\ model_before = model_file
    /\ connected = FALSE
    /\ calls = <<>>

\* if is_model_downloaded(algorithm): return model_path
DownloadCached ==
    /\ dl_pc = "call"
    /\ is_model_downloaded(model_file)
    /\ EndCall("model_path", FALSE, "cached", model_file, temp_file)
    /\ UNCHANGED <<sha256, pipeline, maskv>>

\* urlopen raises: the handler runs and RuntimeError reaches the caller.
DownloadConnectFails ==
    /\ dl_pc = "call"
    /\ ~is_model_downloaded(model_file)
    /\ EndCall("RuntimeError", TRUE, "connect", model_file, ExceptCleanup(temp_file))
    /\ UNCHANGED <<sha256, pipeline, maskv>>

\* urlopen answers; open(temp_path, "wb") creates or truncates the temp file.
DownloadConnect ==
    /\ dl_pc = "call"
    /\ ~is_model_downloaded(model_file)
    /\ connected' = TRUE
    /\ body_left' \in BodySizes
    /\ body_sha' \in (IF sha256 = "None" THEN {"unchecked"} ELSE {sha256, "other"})
    /\ temp_file' = [exists |-> TRUE, size |-> 0, sha |-> "", by |-> "download_model"]
    /\ dl_pc' = "read"
    /\ UNCHANGED <<sha256, model_file, model_before, calls, pipeline, maskv>>

\* chunk = response.read(block_size); f.write(chunk)
DownloadRead ==
    /\ dl_pc = "read"
    /\ body_left > 0
    /\ LET chunk == Min(block_size, body_left) IN
          /\ temp_file' = [temp_file EXCEPT !.size = @ + chunk]
          /\ body_left' = body_left - chunk
    /\ UNCHANGED <<sha256, model_file, dl_pc, body_sha, model_before, connected, calls,
                   pipeline, maskv>>

\* response.read raises (the connection breaks): handler, RuntimeError.
DownloadReadFails ==
    /\ dl_pc = "read"
    /\ EndCall("RuntimeError", TRUE, "read", model_file, ExceptCleanup(temp_file))
    /\ UNCHANGED <<sha256, pipeline, maskv>>

\* "if not chunk: break": the body is complete and both files are closed.
DownloadReadEnd ==
    /\ dl_pc = "read"
    /\ body_left = 0
    /\ temp_file' = [temp_file EXCEPT !.sha = body_sha]
    /\ dl_pc' = "verify"
    /\ UNCHANGED <<sha256, model_file, body_left, body_sha, model_before, connected, calls,
                   pipeline, maskv>>

\* shutil.move(src, dst) tries os.rename first; on Windows os.rename raises
\* when dst exists, and shutil.move then copies src over dst and unlinks src.
MoveRenames(plat, dst) == ~(plat = "nt" /\ dst.exists)

\* The size check, the SHA256 check, shutil.move(temp_path, model_path).
\* A failed check removes the temp file and raises; the handler finds no
\* temp file and raises RuntimeError.  When the move cannot rename, its copy
\* opens model_path for writing, which truncates the file that is there.
DownloadVerify ==
    /\ dl_pc = "verify"
    /\ IF temp_file.size < MinBytes
       THEN EndCall("RuntimeError", TRUE, "too_small", model_file, ExceptCleanup(NoFile))
       ELSE IF sha256 # "None" /\ temp_file.sha # sha256
       THEN EndCall("RuntimeError", TRUE, "sha256", model_file, ExceptCleanup(NoFile))
       ELSE IF MoveRenames(platform, model_file)
       THEN EndCall("model_path", TRUE, "downloaded",
                    [temp_file EXCEPT !.by = "download_model"], NoFile)
       ELSE /\ model_file' = [exists |-> TRUE, size |-> 0, sha |-> "",
                              by |-> "download_model"]
            /\ dl_pc' = "copy"
            /\ UNCHANGED <<temp_file, body_left, body_sha, model_before, connected,
                           calls>>
    /\ UNCHANGED <<sha256, pipeline, maskv>>

\* The copy of shutil.move completes: model_path holds the bytes of the temp
\* file, the temp file is unlinked, download_model returns model_path.
DownloadCopy ==
    /\ dl_pc = "copy"
    /\ EndCall("model_path", TRUE, "downloaded",
               [temp_file EXCEPT !.by = "download_model"], NoFile)
    /\ UNCHANGED <<sha256, pipeline, maskv>>

DownloadNext ==
    \/ DownloadCached \/ DownloadConnectFails \/ DownloadConnect
    \/ DownloadRead \/ DownloadReadFails \/ DownloadReadEnd \/ DownloadVerify
    \/ DownloadCopy

SpecDownload == DownloadInit /\ [][DownloadNext]_vars

(***************************************************************************)
(* Derived views of a run.                                                 *)
(***************************************************************************)
IsProgress(e) == e.type = "progress"
ProgressEvents == SelectSeq(events, IsProgress)
EventsOfType(t) == {i \in 1..Len(events) : events[i].type = t}
LastProgress == ProgressEvents[Len(ProgressEvents)]
FramesCounted == current_frame + processed_count
Ended == pc = "done"
RemuxFailed == remux # <<>> /\ remux[Len(remux)].result # "rc0"

\* The number of frames the loop of process_video_optimized has counted when
\* it ends, started with p frames counted, when the model never raises: it
\* ends at the end of the stream or at the report that divides by zero.
RECURSIVE FramesWrittenBy(_, _, _, _)
FramesWrittenBy(bs, n, len, p) ==
    LET k == Len(read_frames(p, len, bs)) IN
    IF k = 0 THEN p
    ELSE IF OptReportDue(p + k, bs, n) /\ OptReportRaises(n) THEN p + k
    ELSE FramesWrittenBy(bs, n, len, p + k)

(***************************************************************************)
(* Claims.                                                                 *)
(***************************************************************************)
\* C1: in process_video, whenever the remux step failed (ffmpeg exited
\* non-zero or could not be launched), at the end of the run output_path
\* holds the video-only intermediate and "<output>.temp.mp4" is gone.
C1_RemuxFailurePromotesIntermediate ==
    (prog = "inpaint_video" /\ Ended /\ RemuxFailed)
        => (fs["output_path"] = "video_only" /\ fs["temp_output"] = Absent)

\* C2: whatever the probes did, the probe-and-remux post-pass ends without
\* raising, it used libx264 when no probe succeeded, and a file exists at
\* output_path at the end of the run.
C2_PostPassNeverRaises ==
    (prog = "inpaint_video" /\ Ended /\ stage # "none")
        => /\ raised = "none"
           /\ (\A i \in 1..Len(probes) : probes[i] # "ok") => hw_encoder = "libx264"
           /\ fs["output_path"] # Absent

\* C3: in a run that processed at least one frame, met no fatal condition and
\* ended with exit code 0, the
\* last progress event reports 100% and current_frame = total_frames.
C3_LastProgressIsFinal ==
    (Ended /\ exit_code = 0 /\ fatal = "none" /\ FramesCounted >= 1 /\ ProgressEvents # <<>>)
        => (LastProgress.progress = 100
            /\ LastProgress.current_frame = LastProgress.total_frames)

C8_BatchSizeIndependent ==
    (prog = "ai_watermark_remover" /\ Ended /\ fatal = "none")
        => written = [i \in 1..FramesWrittenBy(1, total_frames, source_len, 0) |->
                         Composite(SrcFrame(i), Restore(SrcFrame(i)))]

\* C9: a run that met a fatal condition (input missing, decoder or writer
\* not opening, oracle raising) has emitted an error event and no complete
\* event, and exits with code 1.
C9_FatalConditionsReported ==
    (Ended /\ fatal # "none")
        => /\ EventsOfType("error") # {}
           /\ EventsOfType("complete") = {}
           /\ exit_code = 1

\* C10: a run that met no fatal condition has emitted complete exactly
\* once, with the output path, as its last event, and (process_video) after
\* the remux stage reached Finalized or DegradedVideoOnly.
C10_CompleteOnceAndLast ==
    (Ended /\ fatal = "none")
        => /\ Cardinality(EventsOfType("complete")) = 1
           /\ events[Len(events)].type = "complete"
           /\ events[Len(events)].output = "output_path"
           /\ prog = "inpaint_video" => stage \in {"Finalized", "DegradedVideoOnly"}

\* The pixels of the frame that lie in the rectangle
\* [x, x + width) x [y, y + height) of a region.
InRegion(shape, r) ==
    {px \in (0..(shape[1] - 1)) \X (0..(shape[2] - 1)) :
        /\ r.y <= px[1] /\ px[1] < r.y + r.height
        /\ r.x <= px[2] /\ px[2] < r.x + r.width}

\* C5: create_mask marks exactly the pixels of the frame that lie in some
\* region's rectangle; a region that does not overlap the frame marks none.
C5_MaskIsClippedUnion ==
    mask = UNION {InRegion(frame_shape, regions[i]) : i \in 1..Len(regions)}

\* C6: when a call of download_model returned the path, the next call for
\* the same algorithm returns the path without opening a connection.
C6_SecondCallIsCached ==
    \A i \in 1..(Len(calls) - 1) :
        calls[i].result = "model_path"
            => (calls[i + 1].result = "model_path" /\ ~calls[i + 1].network)

\* C7: a call that started a fetch and failed raised RuntimeError, left no
\* "<model>.tmp" file and left the file at the model path as it was before
\* the call; the call after it starts a fetch again.
C7_FailedDownloadLeavesCacheClean ==
    \A i \in 1..Len(calls) :
        (calls[i].network /\ calls[i].result # "model_path")
            => /\ calls[i].result = "RuntimeError"
               /\ ~calls[i].temp_after.exists
               /\ calls[i].model_after = calls[i].model_before
               /\ i < Len(calls) => calls[i + 1].network

\* C7's case: a download broke after bytes were written to the temp file,
\* over a model file that was there before; the next call fetched again and
\* was rejected by a check.
C7_Witness ==
    /\ Len(calls) = 2
    /\ calls[1].cause = "read" /\ calls[1].model_before.exists
    /\ calls[2].cause \in {"too_small", "sha256"}

\* The writer had opened: the file it creates exists (under either name).
WriterHadOpened == fs["output_path"] # Absent \/ fs["temp_output"] # Absent

\* C11: when the process ends after the decoder and the writer were opened,
\* whatever the exit path, neither handle is still held.
C11_HandlesReleasedAtExit ==
    (Ended /\ WriterHadOpened) => (~cap_open /\ ~out_open)

\* C12: every progress event carries a percentage in 0..100.
C12_ProgressInRange ==
    \A i \in 1..Len(ProgressEvents) :
        ProgressEvents[i].progress >= 0 /\ ProgressEvents[i].progress <= 100

\* C13: whatever the declared total and the actual length, a run that met
\* no fatal condition read the source to its end, raised nothing in the
\* frame loop and finished with a complete event and no error event.
C13_CountMismatchTolerated ==
    (Ended /\ fatal = "none")
        => /\ pos = source_len
           /\ raised \notin {"ZeroDivisionError", "cv2.error", "oracle"}
           /\ EventsOfType("error") = {}
           /\ raised = "none" => EventsOfType("complete") # {}

\* C14: detect_hw_encoder runs the smoke-encodes in the order videotoolbox,
\* nvenc, amf, qsv; every run before the last one failed (non-zero exit,
\* timeout or exception) and was skipped; the result is the encoder of the
\* first run that exited 0, after which no further encoder is probed, and it
\* is libx264 exactly when all four runs failed.
C14_FirstWorkingEncoder ==
    LET order == <<"h264_videotoolbox", "h264_nvenc", "h264_amf", "h264_qsv">>
        k == Len(probes)
    IN  /\ k <= 4
        /\ \A j \in 1..(k - 1) : probes[j] \in ProbeFailures
        /\ hw_encoder = "" => \A j \in 1..k : probes[j] \in ProbeFailures
        /\ hw_encoder # "" =>
              /\ k >= 1
              /\ IF probes[k] = "ok"
                 THEN hw_encoder = order[k]
                 ELSE k = 4 /\ hw_encoder = "libx264"

\* A timeout and a non-zero exit were skipped and the third encoder selected.
C14_Witness ==
    /\ probes = <<"nonzero", "timeout", "ok">>
    /\ hw_encoder = "h264_amf"
    /\ stage = "Selected"

\* C15: the post-pass goes through Probing, Selected and Remuxing in that
\* order and ends in exactly one of Finalized and DegradedVideoOnly; the
\* remux command is run exactly once, only after an encoder was selected
\* and with the arguments of that encoder; when it exits 0 the intermediate
\* is deleted and the merged file is what output_path holds.
C15_PostPassStages ==
    /\ stage \in {"Selected", "Remuxing", "Finalized", "DegradedVideoOnly"}
          => hw_encoder # ""
    /\ stage \in {"none", "Probing", "Selected"} => remux = <<>>
    /\ stage \in {"Remuxing", "Finalized", "DegradedVideoOnly"}
          => /\ Len(remux) = 1
             /\ remux[1].codec = build_encoder_args(hw_encoder)
    /\ stage = "Finalized"
          => /\ remux[1].result = "rc0"
             /\ fs["temp_output"] = Absent
             /\ fs["output_path"] = "merged"
    /\ stage = "DegradedVideoOnly" => remux[1].result # "rc0"
    /\ (Ended /\ stage # "none") => stage \in {"Finalized", "DegradedVideoOnly"}

\* C16: in process_video the writer is closed before the output file is
\* renamed to the intermediate, before any smoke-encode runs and before the
\* remux command starts; and once the writer is closed, only the steps of
\* the post-pass (rename to the intermediate, remux, finalisation) change
\* what output_path and temp_output hold.
C16_WriterClosedBeforePostPass ==
    /\ [](prog = "inpaint_video"
            => /\ (pc \in {"rename", "probe", "remux", "finalize", "complete"}) => ~out_open
               /\ (fs["temp_output"] # Absent \/ probes # <<>> \/ remux # <<>>
                     \/ stage # "none") => ~out_open)
    /\ [][(prog = "inpaint_video" /\ WriterHadOpened /\ ~out_open /\ fs' # fs)
             => pc \in {"rename", "remux", "finalize"}]_vars

\* The writer took frames, was closed, and the remux command has since run.
C16_Witness ==
    /\ prog = "inpaint_video"
    /\ written # <<>>
    /\ ~out_open
    /\ stage = "Remuxing"
    /\ fs["temp_output"] = "video_only"

\* The frames of the first n oracle calls, in call order.
RECURSIVE FramesPassed(_)
FramesPassed(n) ==
    IF n = 0 THEN <<>> ELSE FramesPassed(n - 1) \o oracle_calls[n]

\* C17: in process_video_optimized, while no fatal condition has occurred:
\* the frames read so far are exactly the frames passed to the oracle, each
\* in one batch and in source order, and each was written once, in source
\* order; no batch is empty, every batch but the last holds batch_size
\* frames and the last at most batch_size; the oracle was called once per
\* batch read; a run that ends normally has read and written the whole
\* source, its final partial batch included.
C17_BatchScheduling ==
    (prog = "ai_watermark_remover" /\ fatal = "none" /\ batch_size >= 1)
        => LET n == Len(oracle_calls) IN
           /\ FramesPassed(n) = [i \in 1..pos |-> i]
           /\ written = [i \in 1..pos |->
                            Composite(SrcFrame(i), Restore(SrcFrame(i)))]
           /\ \A c \in 1..n :
                 /\ Len(oracle_calls[c]) >= 1
                 /\ Len(oracle_calls[c]) <= batch_size
                 /\ c < n => Len(oracle_calls[c]) = batch_size
           /\ n = (pos + batch_size - 1) \div batch_size
           /\ (Ended /\ exit_code = 0) => pos = source_len

\* A run that ended normally after two full batches and a partial one.
C17_Witness ==
    /\ prog = "ai_watermark_remover" /\ fatal = "none"
    /\ Ended /\ exit_code = 0
    /\ batch_size = 2
    /\ Len(oracle_calls) = 3
    /\ Len(oracle_calls[3]) = 1
    /\ Len(written) = 5

\* C18: in process_video_optimized decoding overlaps the oracle: when the
\* oracle has returned from a batch and the source has frames left, frames
\* of the next batch were already read while it ran (so the oracle does not
\* wait for the decoder), and never more than one batch is read ahead.
C18_DecodeOverlapsCompute ==
    LET passed == Len(FramesPassed(Len(oracle_calls))) IN
    (prog = "ai_watermark_remover" /\ pc = "loop")
        => /\ (oracle_calls # <<>> /\ passed < source_len) => pos > passed
           /\ pos - passed <= batch_size

\* C19: from the moment process_video_optimized has chosen its batch size
\* (the info event is out) that size stays the caller's value when one was
\* given, and otherwise 12 on an accelerator (cuda or mps) and 4 on cpu.
C19_BatchSizeByDevice ==
    (prog = "ai_watermark_remover" /\ EventsOfType("info") # {})
        => batch_size = IF custom_batch_size > 0 THEN custom_batch_size
                        ELSE IF device \in {"cuda", "mps"} THEN 12
                        ELSE 4

\* C20: in every state, a file that download_model put at the model path
\* is a complete download that passed the size check and, when a digest is
\* registered, the SHA256 check: the path is only ever filled by moving the
\* finished temp file, never written piecemeal.
C20_PublishedModelIsValidated ==
    model_file.by = "download_model"
        => /\ model_file.size >= MinBytes
           /\ sha256 # "None" => model_file.sha = sha256

====
